---- MODULE Spec2Model ----
(***************************************************************************)
(* A model of the ununknown validator/parser combinator library.           *)
(*                                                                         *)
(* Parsers are pure functions unknown -> Either<E, R>.  The model keeps a  *)
(* parser as a syntax tree (a record with a kind k) and runs it with the   *)
(* recursive operator Exec, which returns the outcome of runParser and the *)
(* ordered log of every parser run and every user callback call.  An       *)
(* outcome is the Either the code returns, or Throw when the JavaScript    *)
(* evaluation raises an exception instead of returning.                    *)
(***************************************************************************)
EXTENDS Integers, Sequences, FiniteSets, TLC

\* -------------------------------------------------------------- bounds
\* Numbers of the inputs range over -1..MaxNum.
MaxNum == 1
\* Arrays of the inputs have at most MaxLen elements.
MaxLen == 2

\* ------------------------------------------------ JavaScript values
Null == [t |-> "null"]
Undef == [t |-> "undefined"]
NaN == [t |-> "NaN"]
\* a built-in function value, such as the inherited Object.prototype.toString
FuncV == [t |-> "function"]
NumV(n) == [t |-> "number", n |-> n]
StrV(s) == [t |-> "string", s |-> s]
BoolV(b) == [t |-> "boolean", b |-> b]
\* a plain object: own enumerable properties, a function from names to values
ObjV(props) == [t |-> "object", props |-> props]
ArrV(elems) == [t |-> "array", elems |-> elems]
\* a curried library function with the arguments it has received so far
Closure(fn, keys, bound) == [t |-> "function", fn |-> fn, keys |-> keys, bound |-> bound]

EmptyProps == [x \in {} |-> Undef]

\* The strings typeof can give.
PrimitiveString ==
  {"string", "number", "bigint", "boolean", "symbol", "undefined", "object", "function"}

\* The typeof operator.
TypeOf(v) ==
  CASE v.t = "null" -> "object"
    [] v.t = "array" -> "object"
    [] v.t = "NaN" -> "number"
    [] OTHER -> v.t

\* Property names every object inherits from Object.prototype (the one the
\* model's field names can hit).
ObjectPrototypeKeys == {"toString"}

\* The right operand of `in` must be an Object: null, undefined and the
\* primitive numbers, strings and booleans make `in` raise a TypeError.
IsObjectValue(v) == v.t \in {"object", "array", "function"}

OwnKeys(v) == IF v.t = "object" THEN DOMAIN v.props ELSE {}

\* `field in o` for an Object o: own or inherited.
HasProperty(field, v) == field \in OwnKeys(v) \/ field \in ObjectPrototypeKeys

\* o[field] for an Object o.
GetProperty(v, field) ==
  IF field \in OwnKeys(v) THEN v.props[field]
  ELSE IF field \in ObjectPrototypeKeys THEN FuncV
  ELSE Undef

Nums == -1 .. MaxNum

\* Unary plus on a string: the decimal numerals convert, anything else is NaN.
UnaryPlus(s) ==
  IF \E n \in Nums : ToString(n) = s
  THEN NumV(CHOOSE n \in Nums : ToString(n) = s)
  ELSE NaN

\* ----------------------------------------------------------- Either
Right(v) == [tag |-> "Right", right |-> v]
Left(e) == [tag |-> "Left", left |-> e]
\* not an Either: the evaluation raised exc instead of returning
Throw(exc) == [tag |-> "Throw", exc |-> exc]

isSuccess(result) == result.tag = "Right"
isFailure(result) == result.tag = "Left"
IsThrow(result) == result.tag = "Throw"

\* -------------------------------------------------------- error values
NotOfType(type, value) == [e |-> "NotOfType", type |-> type, value |-> value]
FieldDoesNotExistOn(on, field) == [e |-> "FieldDoesNotExistOn", on |-> on, field |-> field]
NotAnArray(input) == [e |-> "NotAnArray", input |-> input]
ElementMisMatch(array, element) == [e |-> "ElementMisMatch", array |-> array, element |-> element]
PredicateMismatch(value, customMessage) ==
  [e |-> "PredicateMismatch", value |-> value, customMessage |-> customMessage]

\* A string error is the sequence of its pieces: literal text, and the
\* renderings of values.
Lit(s) == [lit |-> s]
Json(v) == [json |-> v]
\* `${v}` of a value inside a template literal
Tpl(v) == [tpl |-> v]
StringError(parts) == [e |-> "String", parts |-> parts]

\* Template-literal conversion `${x}` of an error value: a string is itself,
\* any object renders as "[object Object]".
TemplateString(err) ==
  IF err.e = "String" THEN err.parts ELSE <<Lit("[object Object]")>>

\* ------------------------------------------------- parser syntax trees
\* One constructor per exported combinator; the record is the closure the
\* combinator returns, holding what it closes over.
Succeed(result) == [k |-> "of", result |-> result]
Fail(error) == [k |-> "fail", error |-> error]
FromResult(either) == [k |-> "fromResult", either |-> either]
\* from(_ => parser.runParser(input)): the parser compose hands to chain
FromRun(parser, input) == [k |-> "from", parser |-> parser, input |-> input]
Map(v, f) == [k |-> "map", v |-> v, f |-> f]
Ap(fab, a) == [k |-> "ap", fab |-> fab, a |-> a]
Chain(fa, afb) == [k |-> "chain", fa |-> fa, afb |-> afb]
Compose(vb, vc) == [k |-> "compose", vb |-> vb, vc |-> vc]
Recursive(body) == [k |-> "recursive", body |-> body]
Both(fst, snd) == [k |-> "both", fst |-> fst, snd |-> snd]
Or(fst, snd) == [k |-> "or", fst |-> fst, snd |-> snd]
IsOf(type) == [k |-> "thing.is.of", type |-> type]
NotOf(type) == [k |-> "thing.is.not.of", type |-> type]
EqualTo(object) == [k |-> "thing.is.equalTo", object |-> object]
\* predicate(type)(p), with the default message template
Predicate(type, p) ==
  [k |-> "predicate", type |-> type, p |-> p, template |-> [fn |-> "default"]]
\* predicate(type)(p, template), with a message template of the call site
PredicateWith(type, p, template) ==
  [k |-> "predicate", type |-> type, p |-> p, template |-> template]
Optional(field, parser) == [k |-> "field.optional", field |-> field, parser |-> parser]
Required(field, parser) == [k |-> "field.required", field |-> field, parser |-> parser]
\* fields: the declared fields in declaration order, each [name, parser]
ObjectOf(fields) == [k |-> "object.of", fields |-> fields]
ArrayOf(parser) == [k |-> "array.of", parser |-> parser]
\* The FieldParser iteration (object.has / object.just): its thing.is.of with
\* string errors, field.required(parser).run(field) and
\* field.optional(parser).run(field), has and just.
IsOfFP(type) == [k |-> "FieldParser.thing.is.of", type |-> type]
RequiredFP(field, parser) == [k |-> "FieldParser.required", field |-> field, parser |-> parser]
OptionalFP(field, parser) == [k |-> "FieldParser.optional", field |-> field, parser |-> parser]
Has(fields) == [k |-> "object.has", fields |-> fields]
Just(fields) == [k |-> "object.just", fields |-> fields]
Field(name, parser) == [name |-> name, parser |-> parser]

\* ------------------------------------------------------------ callbacks
\* Functions a => b handed to map and called by ap.
\* both's t => u => [t, u]
PairFn == [fn |-> "pair"]
\* sequenceS's curried record constructor over the declared keys
RecordFn(keys) == [fn |-> "record", keys |-> keys]
\* user callbacks of the model: x => [x] and x => typeof x
WrapFn == [fn |-> "wrap"]
TypeofFn == [fn |-> "typeof"]
\* x => x, and x => g(f(x))
IdFn == [fn |-> "id"]
ComposeFn(f, g) == [fn |-> "o", f |-> f, g |-> g]
\* Array.isArray, the test handed to predicate("object")
ArrayIsArray == [fn |-> "Array.isArray"]
\* number.range.inclusive's test n => n >= from && n <= to, and its template
InclusiveFn(from, to) == [fn |-> "inclusive", from |-> from, to |-> to]
InclusiveTemplate(from, to) == [fn |-> "notInRange", from |-> from, to |-> to]

\* n >= from && n <= to as it would be with the upper end excluded
inclusive_openAbove(from, to, n) == n.t = "number" /\ n.n >= from /\ n.n < to

\* n >= from && n <= to, on a value of typeof "number" (false on NaN)
inclusive(from, to, n) == n.t = "number" /\ n.n >= from /\ n.n <= to

\* template(s): the message a predicate's template gives for the value s
CallTemplate(template, s) ==
  CASE template.fn = "default" -> <<Tpl(s), Lit(" did not satisfy custom constraint")>>
    [] template.fn = "notInRange" ->
         <<Tpl(s), Lit(" is not in range ["), Tpl(NumV(template.from)), Lit(","),
           Tpl(NumV(template.to)), Lit("]")>>

RecordOf(keys, vals) ==
  ObjV([x \in {keys[i] : i \in 1 .. Len(keys)} |->
          vals[CHOOSE i \in 1 .. Len(keys) : keys[i] = x]])

\* Calling the function value f on the argument a.
RECURSIVE CallFn(_, _)
CallFn(f, a) ==
  CASE f.fn = "id" -> a
    [] f.fn = "o" -> CallFn(f.g, CallFn(f.f, a))
    [] f.fn = "Array.isArray" -> BoolV(a.t = "array")
    [] f.fn = "inclusive" -> BoolV(inclusive(f.from, f.to, a))
    [] f.fn = "pair" /\ "bound" \notin DOMAIN f -> Closure("pair", <<>>, <<a>>)
    [] f.fn = "pair" /\ "bound" \in DOMAIN f -> ArrV(<<f.bound[1], a>>)
    [] f.fn = "record" ->
         LET bound == IF "bound" \in DOMAIN f THEN Append(f.bound, a) ELSE <<a>> IN
         IF Len(bound) = Len(f.keys) THEN RecordOf(f.keys, bound)
         ELSE Closure("record", f.keys, bound)
    [] f.fn = "wrap" -> ArrV(<<a>>)
    [] f.fn = "typeof" -> StrV(TypeOf(a))

\* Functions a => Parser handed to chain.
\* compose's (b) => from(_ => vc.runParser(b))
ComposeK(vc) == [fn |-> "composeK", vc |-> vc]
\* field.required's (o) => field in o ? fromResult(parser.runParser(o[field])) : fail(...)
RequiredK(field, parser) == [fn |-> "requiredK", field |-> field, parser |-> parser]
\* the test suite's numberFromString continuation:
\* s => +s === NaN ? fail(...) : succeed(+s), whose test +s === NaN is never true
NumberFromStringK == [fn |-> "numberFromString"]
\* user continuations of the model: a => succeed(a), and a => thing.is.string
\* object.has's (obj) => { for (const fieldName in fieldParsers) ... }
HasK(fields) == [fn |-> "hasK", fields |-> fields]
SucceedK == [fn |-> "succeed"]
ThenStringK == [fn |-> "thenString"]

\* ------------------------------------------------------------------ log
RunEv(p, o) == [ev |-> "run", p |-> p, o |-> o]
CallEv(f, a) == [ev |-> "call", f |-> f, a |-> a]
ThunkEv(body) == [ev |-> "thunk", body |-> body]
\* an assignment target[name] = ..., target being the object has builds
\* ("endResult") or the object the validator was run on ("input")
WriteEv(target, name) == [ev |-> "write", target |-> target, name |-> name]

\* an execution: the outcome and the ordered log of what was evaluated
X(res, log) == [res |-> res, log |-> log]
\* what a continuation call yields: the parser it returned, or the exception
K(parser, log) == [threw |-> FALSE, parser |-> parser, log |-> log]
KThrow(exc, log) == [threw |-> TRUE, exc |-> exc, log |-> log]

\* ------------------------------------------------------------ thunks
\* The bodies handed to recursive, by name: a thunk's parser may hold
\* Recursive of its own name.
Thunk(body) ==
  CASE body = "string" -> IsOf("string")
    [] body = "trie" ->
         \* const trieValidator = recursive(() => sequenceS(parser)({value: ...,
         \* children: field.required("children", array.of(trieValidator))}))
         ObjectOf(<<Field("value", Required("value", IsOf("string"))),
                    Field("children", Required("children", ArrayOf(Recursive("trie"))))>>)
    [] body = "list" ->
         \* const list = recursive(() => array.of(list)): arrays of such arrays
         ArrayOf(Recursive("list"))

\* ------------------------------------------------------- running parsers
RECURSIVE Exec(_, _)

\* E.ap(fa)(fab): Left-biased towards the function's Either.
E_ap(fa, fab) ==
  IF isFailure(fab) THEN fab
  ELSE IF isFailure(fa) THEN fa
  ELSE Right(CallFn(fab.right, fa.right))

\* object.has's loop over the declared fields, from field i on: the first
\* failing field ends it, the decoded fields are collected in endResult.
RECURSIVE HasLoop(_, _, _, _, _)
\* the loop as it would be if has passed the input object through
HasLoop_returningInput(fields, i, obj, endResult, log) ==
  IF i > Len(fields)
  THEN K(Succeed(obj), log)
  ELSE LET r == Exec(fields[i].parser, obj) IN
       IF IsThrow(r.res) THEN KThrow(r.res.exc, log \o r.log)
       ELSE IF isFailure(r.res) THEN K(Fail(r.res.left), log \o r.log)
       ELSE HasLoop(fields, i + 1, obj, Append(endResult, r.res.right),
                    log \o r.log \o <<WriteEv("endResult", fields[i].name)>>)

\* the loop as it would be if has assigned the decoded fields into the
\* input object
HasLoop_writingInput(fields, i, obj, endResult, log) ==
  IF i > Len(fields)
  THEN K(Succeed(RecordOf([j \in 1 .. Len(fields) |-> fields[j].name], endResult)), log)
  ELSE LET r == Exec(fields[i].parser, obj) IN
       IF IsThrow(r.res) THEN KThrow(r.res.exc, log \o r.log)
       ELSE IF isFailure(r.res) THEN K(Fail(r.res.left), log \o r.log)
       ELSE HasLoop(fields, i + 1, obj, Append(endResult, r.res.right),
                    log \o r.log \o <<WriteEv("input", fields[i].name)>>)

HasLoop(fields, i, obj, endResult, log) ==
  IF i > Len(fields)
  THEN K(Succeed(RecordOf([j \in 1 .. Len(fields) |-> fields[j].name], endResult)), log)
  ELSE LET r == Exec(fields[i].parser, obj) IN
       IF IsThrow(r.res) THEN KThrow(r.res.exc, log \o r.log)
       ELSE IF isFailure(r.res) THEN K(Fail(r.res.left), log \o r.log)
       ELSE HasLoop(fields, i + 1, obj, Append(endResult, r.res.right),
                    log \o r.log \o <<WriteEv("endResult", fields[i].name)>>)

\* Calling the continuation afb on a: the parser it returns (with the log of
\* what the call itself ran), or the exception it raised.
CallParser(afb, a) ==
  CASE afb.fn = "composeK" -> K(FromRun(afb.vc, a), <<>>)
    [] afb.fn = "requiredK" ->
         IF ~IsObjectValue(a) THEN KThrow("TypeError", <<>>)
         ELSE IF HasProperty(afb.field, a)
         THEN LET r == Exec(afb.parser, GetProperty(a, afb.field)) IN
              IF IsThrow(r.res) THEN KThrow(r.res.exc, r.log)
              ELSE K(FromResult(r.res), r.log)
         ELSE K(Fail(FieldDoesNotExistOn(a, afb.field)), <<>>)
    [] afb.fn = "hasK" -> HasLoop(afb.fields, 1, a, <<>>, <<>>)
    [] afb.fn = "numberFromString" -> K(Succeed(UnaryPlus(a.s)), <<>>)
    [] afb.fn = "succeed" -> K(Succeed(a), <<>>)
    [] afb.fn = "thenString" -> K(IsOf("string"), <<>>)

\* of as it would be if it yielded the input it is run on
of_returningInput(p, o) == X(Right(o), <<>>)

\* parserApplicative.of / succeed
of(p, o) == X(Right(p.result), <<>>)

fail(p, o) == X(Left(p.error), <<>>)

fromResult(p, o) == X(p.either, <<>>)

from(p, o) == Exec(p.parser, p.input)

\* map as it would be if it rebuilt a failure from the rendering of its error
map_rebuildingErrors(p, o) ==
  LET v == Exec(p.v, o) IN
  IF isSuccess(v.res)
  THEN X(Right(CallFn(p.f, v.res.right)), v.log \o <<CallEv(p.f, v.res.right)>>)
  ELSE IF isFailure(v.res) THEN X(Left(StringError(TemplateString(v.res.left))), v.log)
  ELSE v

\* parserFunctor.map: E.map(f)(v.runParser(o))
map(p, o) ==
  LET v == Exec(p.v, o) IN
  IF isSuccess(v.res)
  THEN X(Right(CallFn(p.f, v.res.right)), v.log \o <<CallEv(p.f, v.res.right)>>)
  ELSE v

\* parserApplicative.ap: E.ap(a.runParser(o))(fab.runParser(o)); the argument
\* a.runParser(o) is evaluated before fab.runParser(o).
ap(p, o) ==
  LET a == Exec(p.a, o) IN
  IF IsThrow(a.res) THEN a
  ELSE LET fab == Exec(p.fab, o) IN
       IF IsThrow(fab.res) THEN X(fab.res, a.log \o fab.log)
       ELSE X(E_ap(a.res, fab.res), a.log \o fab.log)

\* chain as it would be if the continuation's parser were run on the decoded
\* value a instead of the original input o
chain_onDecoded(p, o) ==
  LET fa == Exec(p.fa, o) IN
  IF ~isSuccess(fa.res) THEN fa
  ELSE LET a == fa.res.right
           c == CallParser(p.afb, a)
           called == fa.log \o <<CallEv(p.afb, a)>> \o c.log
       IN IF c.threw THEN X(Throw(c.exc), called)
          ELSE LET r == Exec(c.parser, a) IN X(r.res, called \o r.log)

\* parserMonad.chain: E.chain(a => afb(a).runParser(o))(fa.runParser(o))
chain(p, o) ==
  LET fa == Exec(p.fa, o) IN
  IF ~isSuccess(fa.res) THEN fa
  ELSE LET a == fa.res.right
           c == CallParser(p.afb, a)
           called == fa.log \o <<CallEv(p.afb, a)>> \o c.log
       IN IF c.threw THEN X(Throw(c.exc), called)
          ELSE LET r == Exec(c.parser, o) IN X(r.res, called \o r.log)

\* compose as it would be if the second stage were run on the original input
compose_onInput(p, o) ==
  LET b == Exec(p.vb, o) IN
  IF ~isSuccess(b.res) THEN b
  ELSE LET r == Exec(p.vc, o) IN X(r.res, b.log \o r.log)

\* compose: chain(vb, b => from(_ => vc.runParser(b)))
compose(p, o) == chain(Chain(p.vb, ComposeK(p.vc)), o)

\* recursive as it would be if each invocation called the thunk twice
recursive_callingTwice(p, o) ==
  LET r == Exec(Thunk(p.body), o) IN
  X(r.res, <<ThunkEv(p.body), ThunkEv(p.body)>> \o r.log)

\* recursive: from(o => body().runParser(o))
recursive(p, o) ==
  LET r == Exec(Thunk(p.body), o) IN X(r.res, <<ThunkEv(p.body)>> \o r.log)

both(p, o) == ap(Ap(Map(p.fst, PairFn), p.snd), o)

or(p, o) ==
  LET fres == Exec(p.fst, o) IN
  IF IsThrow(fres.res) THEN fres
  ELSE LET sres == Exec(p.snd, o)
           log == fres.log \o sres.log
       IN IF IsThrow(sres.res) THEN X(sres.res, log)
          ELSE IF isSuccess(fres.res) THEN X(fres.res, log)
          ELSE IF isSuccess(sres.res) THEN X(sres.res, log)
          ELSE X(Left(StringError(TemplateString(fres.res.left) \o <<Lit(" and ")>>
                                    \o TemplateString(sres.res.left))), log)

\* thing.is.of as it would be if it told null and arrays from objects
thing_is_of_byKind(p, o) ==
  X(IF o.t = p.type THEN Right(o) ELSE Left(NotOfType(p.type, o)), <<>>)

thing_is_of(p, o) ==
  X(IF TypeOf(o) = p.type THEN Right(o) ELSE Left(NotOfType(p.type, o)), <<>>)

\* _.isEqual(a, b): deep comparison of own enumerable members and elements;
\* a value of the model is its own structure.
isEqual(a, b) == a = b

\* equalTo as it would be if it compared references: an object or array
\* input is never the object the validator was built with
thing_is_equalTo_byReference(p, o) ==
  X(IF isEqual(p.object, o) /\ ~IsObjectValue(o) THEN Right(o)
    ELSE Left(StringError(<<Json(o), Lit(" is not equal to "), Json(p.object)>>)), <<>>)

\* thing.is.equalTo: _.isEqual(object, o) ? right(o) : left(`...`)
thing_is_equalTo(p, o) ==
  X(IF isEqual(p.object, o) THEN Right(o)
    ELSE Left(StringError(<<Json(o), Lit(" is not equal to "), Json(p.object)>>)), <<>>)

\* thing.is.not.of: isFailure(is.of(type).runParser(o)) ? right(o) : left(`...`)
thing_is_not_of(p, o) ==
  LET r == Exec(IsOf(p.type), o) IN
  X(IF isFailure(r.res) THEN Right(o)
    ELSE Left(StringError(<<Json(o), Lit(" is of type "), Json(StrV(p.type))>>)), r.log)

\* predicate as it would be if it applied the test before the type check
predicate_testingFirst(p, o) ==
  LET r == Exec(IsOf(p.type), o)
      called == <<CallEv(p.p, o)>> \o r.log
  IN IF ~isSuccess(r.res) THEN X(r.res, called)
     ELSE IF CallFn(p.p, o) = BoolV(TRUE) THEN X(Right(o), called)
     ELSE X(Left(PredicateMismatch(o, CallTemplate(p.template, o))), called)

\* predicate(type)(p): E.chain(s => p(s) ? right(s) : left(PredicateMismatch))
\* over thing.is.of(type).runParser(o)
predicate(p, o) ==
  LET r == Exec(IsOf(p.type), o) IN
  IF ~isSuccess(r.res) THEN r
  ELSE LET s == r.res.right
           called == r.log \o <<CallEv(p.p, s)>>
       IN IF CallFn(p.p, s) = BoolV(TRUE) THEN X(Right(s), called)
          ELSE X(Left(PredicateMismatch(o, CallTemplate(p.template, s))), called)

field_optional(p, o) ==
  IF ~IsObjectValue(o) THEN X(Throw("TypeError"), <<>>)
  ELSE IF HasProperty(p.field, o) THEN Exec(p.parser, GetProperty(o, p.field))
  ELSE X(Right(Undef), <<>>)

field_required(p, o) == chain(Chain(IsOf("object"), RequiredK(p.field, p.parser)), o)

\* sequenceS(parser)(r): map over the first declared field, ap over the rest.
RECURSIVE sequenceS(_, _)
sequenceS(fields, i) ==
  IF i = 1
  THEN Map(fields[1].parser, RecordFn([j \in 1 .. Len(fields) |-> fields[j].name]))
  ELSE Ap(sequenceS(fields, i - 1), fields[i].parser)

object_of(p, o) ==
  LET fr == sequenceS(p.fields, Len(p.fields)) IN
  IF fr.k = "map" THEN map(fr, o) ELSE ap(fr, o)

\* o.map(each => parser.runParser(each)): every element is run, in index
\* order, unless a run raises; then .filter(isFailure).
RECURSIVE MapElements(_, _, _, _)
MapElements(parser, elems, i, acc) ==
  IF i > Len(elems) THEN acc
  ELSE LET r == Exec(parser, elems[i]) IN
       IF IsThrow(r.res) THEN [acc EXCEPT !.threw = TRUE, !.exc = r.res.exc, !.log = @ \o r.log]
       ELSE MapElements(parser, elems, i + 1,
                        [acc EXCEPT !.results = Append(@, r.res), !.log = @ \o r.log])

\* array.of as it would be if it ran the element parser once on an empty
\* array's absent first element
array_of_visitingAbsentElement(p, o) ==
  IF o.t = "array"
  THEN LET m == MapElements(p.parser, IF o.elems = <<>> THEN <<Undef>> ELSE o.elems, 1,
                            [threw |-> FALSE, exc |-> "", results |-> <<>>, log |-> <<>>])
           results == SelectSeq(m.results, isFailure)
       IN IF m.threw THEN X(Throw(m.exc), m.log)
          ELSE IF Len(results) > 0 THEN X(Left(ElementMisMatch(o, results[1])), m.log)
          ELSE X(Right(o), m.log)
  ELSE X(Left(NotAnArray(o)), <<>>)

array_of(p, o) ==
  IF o.t = "array"
  THEN LET m == MapElements(p.parser, o.elems, 1,
                            [threw |-> FALSE, exc |-> "", results |-> <<>>, log |-> <<>>])
           results == SelectSeq(m.results, isFailure)
       IN IF m.threw THEN X(Throw(m.exc), m.log)
          ELSE IF Len(results) > 0 THEN X(Left(ElementMisMatch(o, results[1])), m.log)
          ELSE X(Right(o), m.log)
  ELSE X(Left(NotAnArray(o)), <<>>)

\* ---- the FieldParser iteration
thing_is_of_FP(p, o) ==
  X(IF TypeOf(o) = p.type THEN Right(o)
    ELSE Left(StringError(<<Json(o), Lit(" is not of type "), Json(StrV(p.type))>>)), <<>>)

field_optional_FP(p, o) ==
  IF ~IsObjectValue(o) THEN X(Throw("TypeError"), <<>>)
  ELSE IF HasProperty(p.field, o) THEN Exec(p.parser, GetProperty(o, p.field))
  ELSE X(Right(Undef), <<>>)

field_required_FP(p, o) ==
  IF ~IsObjectValue(o) THEN X(Throw("TypeError"), <<>>)
  ELSE IF HasProperty(p.field, o) THEN Exec(p.parser, GetProperty(o, p.field))
  ELSE X(Left(StringError(<<Json(o), Lit(" does not contain field "), Json(StrV(p.field))>>)),
         <<>>)

object_has(p, o) == chain(Chain(IsOfFP("object"), HasK(p.fields)), o)

\* Object.keys(o) of a value that is not null or undefined: the own
\* enumerable names; an array's are its indices.
ObjectKeys(v) ==
  CASE v.t = "object" -> DOMAIN v.props
    [] v.t = "array" -> {ToString(i - 1) : i \in 1 .. Len(v.elems)}
    [] OTHER -> {}

DeclaredNames(fields) == {fields[j].name : j \in 1 .. Len(fields)}

\* the fieldParsers object literal, as far as `x in fieldParsers` reads it
FieldParsersObject(fields) == ObjV([x \in DeclaredNames(fields) |-> Undef])

object_just(p, o) ==
  LET h == Exec(Has(p.fields), o) IN
  IF ~isSuccess(h.res) THEN h
  ELSE IF o.t \in {"null", "undefined"} THEN X(Throw("TypeError"), h.log)
  ELSE LET all == h.res.right
           thisKeys == ObjectKeys(o)
           parserKeys == DeclaredNames(p.fields)
           diff == thisKeys \ parserKeys
       IN IF ~(\A x \in diff : HasProperty(x, FieldParsersObject(p.fields)))
          THEN X(Left(StringError(
                   <<Json(all), Lit(" has extra fields not present in "),
                     Json(ArrV([j \in 1 .. Len(p.fields) |-> StrV(p.fields[j].name)])),
                     Lit(": "), Lit("{}")>>)), h.log)
          ELSE X(Right(all), h.log)

Body(p, o) ==
  CASE p.k = "of" -> of(p, o)
    [] p.k = "fail" -> fail(p, o)
    [] p.k = "fromResult" -> fromResult(p, o)
    [] p.k = "from" -> from(p, o)
    [] p.k = "map" -> map(p, o)
    [] p.k = "ap" -> ap(p, o)
    [] p.k = "chain" -> chain(p, o)
    [] p.k = "compose" -> compose(p, o)
    [] p.k = "recursive" -> recursive(p, o)
    [] p.k = "both" -> both(p, o)
    [] p.k = "or" -> or(p, o)
    [] p.k = "thing.is.of" -> thing_is_of(p, o)
    [] p.k = "thing.is.not.of" -> thing_is_not_of(p, o)
    [] p.k = "thing.is.equalTo" -> thing_is_equalTo(p, o)
    [] p.k = "predicate" -> predicate(p, o)
    [] p.k = "field.optional" -> field_optional(p, o)
    [] p.k = "field.required" -> field_required(p, o)
    [] p.k = "object.of" -> object_of(p, o)
    [] p.k = "array.of" -> array_of(p, o)
    [] p.k = "FieldParser.thing.is.of" -> thing_is_of_FP(p, o)
    [] p.k = "FieldParser.required" -> field_required_FP(p, o)
    [] p.k = "FieldParser.optional" -> field_optional_FP(p, o)
    [] p.k = "object.has" -> object_has(p, o)
    [] p.k = "object.just" -> object_just(p, o)

\* parser.runParser(o), logged
Exec(p, o) == LET r == Body(p, o) IN X(r.res, <<RunEv(p, o)>> \o r.log)

\* runParser(parser, input)
runParser(parser, input) == Exec(parser, input).res

\* What a call of runParserEx ends with: the value it returns, or the
\* Error it throws, which carries a message and nothing else.
Returned(value) == [tag |-> "Returned", value |-> value]
ErrorEx(message) == [tag |-> "Throw", exc |-> "Error", message |-> message]

\* runParserEx: if (isFailure(result)) throw new Error(`${result.left}`);
\* return result.right. An exception of parser.runParser passes through.
runParserEx(p, i) ==
  LET result == runParser(p, i) IN
  IF IsThrow(result) THEN result
  ELSE IF isFailure(result) THEN ErrorEx(TemplateString(result.left))
  ELSE Returned(result.right)

\* ------------------------------------------------------------- inputs
Keys == {"a", "b", "toString"}
FieldVals == {Undef, NumV(0), StrV("x")}

Scalars ==
  {Null, Undef, FuncV, BoolV(TRUE), StrV("x"), StrV("1")} \cup {NumV(n) : n \in Nums}

Objects ==
  {ObjV(f) : f \in UNION {[ks -> FieldVals] : ks \in SUBSET Keys}}

ArrElems == {StrV("x"), NumV(0), Null, ObjV(EmptyProps), ArrV(<<>>)}

Arrays ==
  {ArrV(e) : e \in UNION {[1 .. n -> ArrElems] : n \in 0 .. MaxLen}}

\* The trie test's inputs: nodes {value, children}, well formed or not.
Node(value, children) ==
  ObjV([x \in {"value", "children"} |-> IF x = "value" THEN value ELSE children])

top == Node(StrV("x"), ArrV(<<>>))

NoChildren == ObjV([x \in {"value"} |-> StrV("x")])

TrieElems == {top, NoChildren, NumV(0), Null}

DeepElems == {top, Node(StrV("x"), ArrV(<<top>>)), Node(StrV("x"), ArrV(<<NumV(0)>>))}

Tries ==
  {NoChildren, Node(StrV("x"), NumV(0)), Node(NumV(0), ArrV(<<>>))}
    \cup {Node(StrV("x"), ArrV(e)) : e \in UNION {[1 .. n -> TrieElems] : n \in 0 .. MaxLen}}
    \cup {Node(StrV("x"), ArrV(e)) : e \in UNION {[1 .. n -> DeepElems] : n \in 1 .. MaxLen}}

\* the rgb test's range
RangeFrom == 0
RangeTo == 255

\* The rgb test's inputs: numbers at and beside the ends of the range, and
\* objects with members r, g, b among them or missing.
RangeNums == {NumV(RangeFrom - 1), NumV(RangeFrom), NumV(RangeTo), NumV(RangeTo + 1)}

Colors ==
  {ObjV(f) : f \in UNION {[ks -> RangeNums] : ks \in SUBSET {"r", "g", "b"}}}

Inputs == Scalars \cup Objects \cup Arrays \cup Tries \cup RangeNums \cup Colors

\* ------------------------------------------------------------ parsers
numberFromString == Chain(IsOf("string"), NumberFromStringK)

\* thing.is.array and thing.is.not.array, each predicate("object")(Array.isArray)
thing_is_array == Predicate("object", ArrayIsArray)
thing_is_not_array == Predicate("object", ArrayIsArray)

\* number.range.inclusive(from, to)
number_range_inclusive(lower, upper) ==
  PredicateWith("number", InclusiveFn(lower, upper), InclusiveTemplate(lower, upper))

\* the ranges of the model
Ranges == {<<RangeFrom, RangeTo>>, <<0, MaxNum>>, <<0, 0>>}

rgbColorValidator ==
  ObjectOf(<<Field("r", Required("r", number_range_inclusive(RangeFrom, RangeTo))),
             Field("g", Required("g", number_range_inclusive(RangeFrom, RangeTo))),
             Field("b", Required("b", number_range_inclusive(RangeFrom, RangeTo)))>>)

Leaves == {IsOf("string"), IsOf("number")}

Accessors ==
  {Required(f, l) : f \in {"a", "toString"}, l \in Leaves}
    \cup {Optional(f, l) : f \in {"a", "toString"}, l \in Leaves}

Subs ==
  Leaves \cup {IsOf("object"), numberFromString, Map(IsOf("string"), WrapFn),
               Required("a", IsOf("string")), Optional("a", IsOf("number")),
               Fail(StringError(<<Lit("no")>>))}

\* the continuations that take any value (numberFromString takes a string)
UserKs == {SucceedK, ThenStringK}

FieldLists ==
  {<<Field(x.field, x)>> : x \in Accessors}
    \cup {<<Field("a", x), Field("b", y)>> :
            x \in {Required("a", l) : l \in Leaves} \cup {Optional("a", IsOf("number"))},
            y \in {Required("b", IsOf("number")), Optional("b", IsOf("string"))}}
    \cup {<<Field("a", Required("a", IsOf("string"))), Field("b", Required("b", IsOf("number"))),
             Field("c", z)>> : z \in {Required("c", IsOf("string")), Optional("c", IsOf("number"))}}

FieldListsFP ==
  {<<>>, <<Field("a", RequiredFP("a", IsOf("string")))>>,
   <<Field("a", OptionalFP("a", IsOf("number")))>>,
   <<Field("a", RequiredFP("a", numberFromString)), Field("b", OptionalFP("b", IsOf("string")))>>,
   <<Field("a", RequiredFP("a", IsOf("string"))), Field("b", RequiredFP("b", IsOf("number")))>>}

\* the values the equality test builds equalTo with
EqualToValues ==
  {StrV("x"), NumV(0), ObjV(EmptyProps), BoolV(TRUE), Undef, Null,
   ObjV([x \in {"a"} |-> NumV(0)]), ArrV(<<>>)}

\* the values succeed is built with
SucceedValues == {StrV("x"), NumV(0), Undef}

Parsers ==
  Subs \cup Accessors
    \cup {Succeed(a) : a \in SucceedValues}
    \cup {Chain(Succeed(a), f) : a \in SucceedValues, f \in UserKs}
    \cup {Chain(Succeed(StrV("x")), NumberFromStringK)}
    \cup {IsOf(t) : t \in PrimitiveString}
    \cup {NotOf(t) : t \in PrimitiveString}
    \cup {thing_is_array, thing_is_not_array}
    \cup {EqualTo(x) : x \in EqualToValues}
    \cup {number_range_inclusive(r[1], r[2]) : r \in Ranges}
    \cup {rgbColorValidator}
    \cup {Or(x, y) : x \in Subs, y \in Subs}
    \cup {Both(x, y) : x \in Subs, y \in Subs}
    \cup {Compose(x, y) : x \in Subs, y \in Subs}
    \cup {Chain(x, f) : x \in Subs, f \in UserKs}
    \cup {Map(x, f) : x \in Subs, f \in {WrapFn, TypeofFn, IdFn}}
    \cup {Map(Map(x, f), g) : x \in Leaves \cup {numberFromString},
                               f \in {WrapFn, TypeofFn}, g \in {WrapFn, TypeofFn}}
    \cup {Map(x, ComposeFn(f, g)) : x \in Leaves \cup {numberFromString},
                                     f \in {WrapFn, TypeofFn}, g \in {WrapFn, TypeofFn}}
    \cup {ArrayOf(x) : x \in Subs \cup {Map(IsOf("number"), TypeofFn)}}
    \cup {ObjectOf(fs) : fs \in FieldLists}
    \cup {Has(fs) : fs \in FieldListsFP}
    \cup {Just(fs) : fs \in FieldListsFP}
    \cup {Recursive("string"), Recursive("list"), Recursive("trie")}

\* -------------------------------------------------------------- state
VARIABLES pc, parser, input, outcome, log

vars == <<pc, parser, input, outcome, log>>

NoParser == [k |-> "none"]
NoOutcome == [tag |-> "None"]

Init ==
  /\ pc = "idle"
  /\ parser = NoParser
  /\ input = Undef
  /\ outcome = NoOutcome
  /\ log = <<>>

\* What building p evaluates: every combinator returns from(...) at once,
\* and recursive(body) does so without calling body.
ConstructLog(p) == <<>>

\* Building a validator by composing combinators: nothing is run.
Construct(p) ==
  /\ pc = "idle"
  /\ parser' = p
  /\ pc' = "built"
  /\ log' = ConstructLog(p)
  /\ UNCHANGED <<input, outcome>>

\* runParser(parser, input)
RunParser(i) ==
  /\ pc = "built"
  /\ LET x == Exec(parser, i) IN
       /\ outcome' = x.res
       /\ log' = x.log
  /\ input' = i
  /\ pc' = "ran"
  /\ UNCHANGED parser

\* runParserEx(parser, input)
RunParserEx(i) ==
  /\ pc = "built"
  /\ outcome' = runParserEx(parser, i)
  /\ log' = Exec(parser, i).log
  /\ input' = i
  /\ pc' = "ranEx"
  /\ UNCHANGED parser

\* The result is consumed; the validator stays, to be run again.
Consume ==
  /\ pc \in {"ran", "ranEx"}
  /\ pc' = "built"
  /\ input' = Undef
  /\ outcome' = NoOutcome
  /\ log' = <<>>
  /\ UNCHANGED parser

Next ==
  \/ \E p \in Parsers : Construct(p)
  \/ \E i \in Inputs : RunParser(i)
  \/ \E i \in Inputs : RunParserEx(i)
  \/ Consume

Spec == Init /\ [][Next]_vars

\* =============================================================== claims
Ran(kind) == pc = "ran" /\ parser.k = kind

\* The element outcomes of array.of's parser on the input array.
ElementResults == [i \in 1 .. Len(input.elems) |-> runParser(parser.parser, input.elems[i])]

\* C1: for every input and every validator built from the library's
\* combinators with non-throwing callbacks, runParser returns an Ok or an Err
\* and never raises an exception.
C1_NeverRaises == pc = "ran" => ~IsThrow(outcome)

\* C2: an object validator that declares at least one required field, run on
\* null, returns a failure result.
C2_NullIsAFailure ==
  (/\ Ran("object.of")
   /\ \E j \in 1 .. Len(parser.fields) : parser.fields[j].parser.k = "field.required"
   /\ input = Null)
    => isFailure(outcome)

\* C3: on every object input on which object.has(fields) succeeds,
\* object.just(fields) fails if the input has an own field name that is not
\* declared, whatever the name, and otherwise succeeds with exactly the result
\* of object.has(fields).
C3_JustIsClosed ==
  (/\ Ran("object.just")
   /\ input.t = "object"
   /\ isSuccess(runParser(Has(parser.fields), input)))
    => IF OwnKeys(input) \subseteq DeclaredNames(parser.fields)
       THEN outcome = runParser(Has(parser.fields), input)
       ELSE isFailure(outcome)

\* C4: array.of(elementValidator) on an array whose every element validates
\* succeeds with the sequence of the element validator's decoded results, in
\* input order.
C4_ArrayOfProjects ==
  (/\ Ran("array.of")
   /\ input.t = "array"
   /\ \A i \in 1 .. Len(input.elems) : isSuccess(ElementResults[i]))
    => outcome = Right(ArrV([i \in 1 .. Len(input.elems) |-> ElementResults[i].right]))

\* C5: array.of(elementValidator) on an array in which at least one element
\* fails, fails with an ElementMisMatch that carries the input sequence and
\* the error of the lowest-index failing element (held as that element's
\* failing result).
FirstFailing == CHOOSE i \in 1 .. Len(input.elems) :
                  /\ isFailure(ElementResults[i])
                  /\ \A j \in 1 .. i - 1 : ~isFailure(ElementResults[j])

C5_ArrayOfFirstFailure ==
  (/\ Ran("array.of")
   /\ input.t = "array"
   /\ \E i \in 1 .. Len(input.elems) : isFailure(ElementResults[i]))
    => outcome = Left(ElementMisMatch(input, ElementResults[FirstFailing]))

\* C5 on element validators that return on every element: the same statement
\* holds when no element run raises.
C5_OnReturningElements ==
  (/\ Ran("array.of")
   /\ input.t = "array"
   /\ \A i \in 1 .. Len(input.elems) : ~IsThrow(ElementResults[i])
   /\ \E i \in 1 .. Len(input.elems) : isFailure(ElementResults[i]))
    => outcome = Left(ElementMisMatch(input, ElementResults[FirstFailing]))

\* C6: or(v1, v2) succeeds iff at least one of v1, v2 succeeds; when v1
\* succeeds the result is v1's, when only v2 succeeds it is v2's; it fails
\* only when both fail.
OrClaim(r1, r2) ==
  /\ isSuccess(outcome) <=> (isSuccess(r1) \/ isSuccess(r2))
  /\ isSuccess(r1) => outcome = r1
  /\ (~isSuccess(r1) /\ isSuccess(r2)) => outcome = r2
  /\ isFailure(outcome) => (isFailure(r1) /\ isFailure(r2))

C6_OrLeftBiased ==
  Ran("or") => OrClaim(runParser(parser.fst, input), runParser(parser.snd, input))

\* C6 on branches that return: the same statement holds when neither branch
\* raises.
C6_OnReturningBranches ==
  (/\ Ran("or")
   /\ ~IsThrow(runParser(parser.fst, input))
   /\ ~IsThrow(runParser(parser.snd, input)))
    => OrClaim(runParser(parser.fst, input), runParser(parser.snd, input))

\* C7: when both branches of or fail, both branch errors can be recovered
\* unchanged from the error of or: no other pair of branch errors of the
\* same or gives the same error.
C7_OrKeepsBothErrors ==
  (/\ Ran("or")
   /\ isFailure(runParser(parser.fst, input))
   /\ isFailure(runParser(parser.snd, input)))
    => /\ isFailure(outcome)
       /\ \A i2 \in Scalars :
            (/\ isFailure(runParser(parser.fst, i2))
             /\ isFailure(runParser(parser.snd, i2))
             /\ runParser(parser, i2) = outcome)
              => /\ runParser(parser.fst, i2) = runParser(parser.fst, input)
                 /\ runParser(parser.snd, i2) = runParser(parser.snd, input)

\* C8: chain(v, f) on i: if v fails with e the result is Err(e) and f is never
\* invoked (nothing is evaluated after v); if v succeeds with a the result is
\* exactly the result of running f(a) on the same original input i.
C8_ChainOnOriginalInput ==
  Ran("chain") =>
    LET v == Exec(parser.fa, input) IN
    /\ isFailure(v.res) =>
         /\ outcome = v.res
         /\ log = <<RunEv(parser, input)>> \o v.log
    /\ isSuccess(v.res) =>
         outcome = runParser(CallParser(parser.afb, v.res.right).parser, input)

\* chain ran f(a) on the original input, where running it on a differs
C8_Witness ==
  /\ Ran("chain")
  /\ parser = Chain(Map(IsOf("string"), WrapFn), ThenStringK)
  /\ input = StrV("x")
  /\ outcome = Right(StrV("x"))
  /\ isFailure(runParser(IsOf("string"), ArrV(<<StrV("x")>>)))

\* C9: compose(v1, v2) on i: if v1 fails with e the result is Err(e) and v2 is
\* not run; if v1 succeeds with b the result is exactly the result of running
\* v2 on b.
C9_ComposeFeedsResult ==
  Ran("compose") =>
    LET v1 == Exec(parser.vb, input) IN
    /\ isFailure(v1.res) =>
         /\ outcome = v1.res
         /\ log = <<RunEv(parser, input)>> \o v1.log
    /\ isSuccess(v1.res) => outcome = runParser(parser.vc, v1.res.right)

\* compose ran v2 on v1's result, where v2 on the original input differs, and
\* (a second state) v1 failed
C9_Witness ==
  /\ Ran("compose")
  /\ parser = Compose(numberFromString, IsOf("number"))
  /\ input = StrV("1")
  /\ outcome = Right(NumV(1))
  /\ isFailure(runParser(IsOf("number"), input))

\* C10: both(v1, v2) succeeds with the pair [r1, r2] iff v1 succeeds with r1
\* and v2 succeeds with r2; if exactly one fails the result is that one's
\* error; if both fail the result is v1's error, never v2's.
BothClaim(r1, r2) ==
  /\ isSuccess(outcome) <=> (isSuccess(r1) /\ isSuccess(r2))
  /\ (isSuccess(r1) /\ isSuccess(r2)) => outcome = Right(ArrV(<<r1.right, r2.right>>))
  /\ (isFailure(r1) /\ ~isFailure(r2)) => outcome = r1
  /\ (~isFailure(r1) /\ isFailure(r2)) => outcome = r2
  /\ (isFailure(r1) /\ isFailure(r2)) => outcome = r1

C10_BothFirstError ==
  Ran("both") => BothClaim(runParser(parser.fst, input), runParser(parser.snd, input))

\* C10 on validators that return: the same statement holds when neither
\* validator raises.
C10_OnReturningValidators ==
  (/\ Ran("both")
   /\ ~IsThrow(runParser(parser.fst, input))
   /\ ~IsThrow(runParser(parser.snd, input)))
    => BothClaim(runParser(parser.fst, input), runParser(parser.snd, input))

\* C11: map satisfies the functor laws on results: map(v, identity) gives
\* the result of v, map(map(v, f), g) gives the result of
\* map(v, x => g(f(x))), and map leaves a failure of v unchanged.
C11_MapFunctorLaws ==
  Ran("map") =>
    LET v == runParser(parser.v, input) IN
    /\ isFailure(v) => outcome = v
    /\ parser.f = IdFn => outcome = v
    /\ parser.v.k = "map" =>
         outcome = runParser(Map(parser.v.v, ComposeFn(parser.v.f, parser.f)), input)

\* map(map(string, x => [x]), x => typeof x) decoded "x" to "object"
C11_Witness ==
  /\ Ran("map")
  /\ parser = Map(Map(IsOf("string"), WrapFn), TypeofFn)
  /\ input = StrV("x")
  /\ outcome = Right(StrV("object"))
  /\ runParser(Map(IsOf("string"), ComposeFn(WrapFn, TypeofFn)), input) = outcome

ThunkCalls == {i \in 1 .. Len(log) : log[i].ev = "thunk"}
RecursiveRuns == {i \in 1 .. Len(log) : log[i].ev = "run" /\ log[i].p.k = "recursive"}

\* C12: recursive(thunk) never calls thunk while the validator is being
\* constructed; the thunk is called only when the returned validator is
\* invoked, once per invocation, and the invocation's result is exactly the
\* result of the validator the thunk returned on the same input.
C12_RecursiveIsLazy ==
  /\ pc = "built" => ThunkCalls = {}
  /\ pc = "ran" => Cardinality(ThunkCalls) = Cardinality(RecursiveRuns)
  /\ Ran("recursive") =>
       /\ outcome = runParser(Thunk(parser.body), input)
       /\ log = <<RunEv(parser, input), ThunkEv(parser.body)>>
                  \o Exec(Thunk(parser.body), input).log

\* the self-referential list validator ran on [[]]: two invocations, two
\* calls of the thunk
C12_Witness ==
  /\ Ran("recursive")
  /\ parser = Recursive("list")
  /\ input = ArrV(<<ArrV(<<>>)>>)
  /\ isSuccess(outcome)
  /\ Cardinality(ThunkCalls) = 2

\* A finite tree in which every node has a string value and an array
\* children whose elements are all such nodes.
RECURSIVE IsTrie(_)
IsTrie(v) ==
  /\ v.t = "object"
  /\ {"value", "children"} \subseteq DOMAIN v.props
  /\ v.props["value"].t = "string"
  /\ v.props["children"].t = "array"
  /\ \A i \in 1 .. Len(v.props["children"].elems) : IsTrie(v.props["children"].elems[i])

\* C13: the self-referential rose-tree validator succeeds on an input iff
\* the input is a finite tree of nodes with a string value and an array
\* children of valid nodes; it fails on {}, on a node without children, on a
\* node whose children is not an array, and on a node whose children
\* contains a non-node.
C13_TrieValidator ==
  (Ran("recursive") /\ parser.body = "trie") =>
    /\ isSuccess(outcome) <=> IsTrie(input)
    /\ (input.t = "object" /\ ~IsTrie(input)) => isFailure(outcome)

\* C13, the equivalence alone: the validator succeeds exactly on the trees.
C13_SucceedsExactlyOnTrees ==
  (Ran("recursive") /\ parser.body = "trie") => (isSuccess(outcome) <=> IsTrie(input))

Max(S) == CHOOSE x \in S : \A y \in S : y <= x

\* The depth of a value: 0 for a primitive and for an empty container, one
\* more than its deepest member otherwise.
RECURSIVE DepthOf(_)
DepthOf(v) ==
  CASE v.t = "array" /\ v.elems # <<>> ->
         1 + Max({DepthOf(v.elems[i]) : i \in 1 .. Len(v.elems)})
    [] v.t = "object" /\ DOMAIN v.props # {} ->
         1 + Max({DepthOf(v.props[x]) : x \in DOMAIN v.props})
    [] OTHER -> 0

\* The nesting depth of the invocations of recursive validators in a log:
\* the events of an invocation follow its run event, as many as its own log
\* holds.
RECURSIVE RecNest(_)
RecNest(l) ==
  IF l = <<>> THEN 0
  ELSE IF l[1].ev = "run"
  THEN LET n == Len(Exec(l[1].p, l[1].o).log)
           own == IF l[1].p.k = "recursive" THEN 1 ELSE 0
       IN Max({own + RecNest(SubSeq(l, 2, n)), RecNest(SubSeq(l, n + 1, Len(l)))})
  ELSE RecNest(Tail(l))

InnerRuns == {i \in 1 .. Len(log) : log[i].ev = "run" /\ log[i].p = parser.parser}

\* C15: field.required(name, inner) on an object input: if the object has no
\* member name it fails with FieldDoesNotExistOn carrying the object and the
\* name, without running inner; if the member is present, also with the
\* value undefined, the result is exactly inner's result on the member's value.
RequiredClaim ==
  IF parser.field \in OwnKeys(input)
  THEN outcome = runParser(parser.parser, input.props[parser.field])
  ELSE /\ outcome = Left(FieldDoesNotExistOn(input, parser.field))
       /\ InnerRuns = {}

C15_OnOwnNames ==
  (Ran("field.required") /\ input.t = "object" /\ parser.field \notin ObjectPrototypeKeys)
    => RequiredClaim

\* C16: field.optional(name, inner) on an object input: if the member name
\* is absent it succeeds with undefined and inner is not run; if the member
\* is present the result is exactly inner's result on the member's value.
OptionalClaim ==
  IF parser.field \in OwnKeys(input)
  THEN outcome = runParser(parser.parser, input.props[parser.field])
  ELSE /\ outcome = Right(Undef)
       /\ InnerRuns = {}

C16_OnOwnNames ==
  /\ (Ran("field.optional") /\ input.t = "object" /\ parser.field \notin ObjectPrototypeKeys)
       => OptionalClaim
  /\ (Ran("object.of") /\ parser.fields = <<Field("a", Optional("a", IsOf("number")))>>) =>
       /\ input = ObjV(EmptyProps) => outcome = Right(ObjV([x \in {"a"} |-> Undef]))
       /\ input = ObjV([x \in {"a"} |-> StrV("x")])
            => outcome = Left(NotOfType("number", StrV("x")))

\* The outcomes of the declared fields' validators on the input, in
\* declaration order.
FieldResults ==
  [j \in 1 .. Len(parser.fields) |-> runParser(parser.fields[j].parser, input)]

FailingFields == {j \in 1 .. Len(parser.fields) : isFailure(FieldResults[j])}

FirstFailingField == CHOOSE j \in FailingFields : \A i \in FailingFields : j <= i

\* C17: for an object validator declaring several fields, when more than one
\* declared field fails on the input, the returned error is the error of the
\* first failing field in declaration order.
C17_FirstFailingField ==
  (/\ pc = "ran"
   /\ parser.k \in {"object.of", "object.has"}
   /\ Cardinality(FailingFields) > 1)
    => outcome = FieldResults[FirstFailingField]

\* C17 on fields that return: the same statement holds when no declared
\* field's validator raises on the input (for object.has, on the inputs that
\* pass its check of the object category, which comes before any field).
C17_OnReturningFields ==
  (/\ pc = "ran"
   /\ parser.k \in {"object.of", "object.has"}
   /\ parser.k = "object.has" => TypeOf(input) = "object"
   /\ \A j \in 1 .. Len(parser.fields) : ~IsThrow(FieldResults[j])
   /\ Cardinality(FailingFields) > 1)
    => outcome = FieldResults[FirstFailingField]

FieldOf(name) == CHOOSE j \in 1 .. Len(parser.fields) : parser.fields[j].name = name

\* the object of exactly the declared names, each with its field's decoded
\* result
Projection ==
  ObjV([x \in DeclaredNames(parser.fields) |-> FieldResults[FieldOf(x)].right])

\* C18 as stated: when every declared field validates, the object validator
\* (object.has / object.of) succeeds with a newly built object whose keys are
\* exactly the declared field names and whose value for each key is that
\* field validator's decoded result; undeclared input fields do not appear.
C18_AsStated ==
  (/\ pc = "ran"
   /\ parser.k \in {"object.of", "object.has"}
   /\ \A j \in 1 .. Len(parser.fields) : isSuccess(FieldResults[j]))
    => outcome = Right(Projection)

\* C18, on inputs of the object category: when the input's typeof is
\* "object" and every declared field validates, the object validator
\* (object.has / object.of) succeeds with a newly built object whose keys are
\* exactly the declared field names and whose value for each key is that
\* field validator's decoded result; undeclared input fields do not appear.
C18_ObjectIsProjection ==
  (/\ pc = "ran"
   /\ parser.k \in {"object.of", "object.has"}
   /\ TypeOf(input) = "object"
   /\ \A j \in 1 .. Len(parser.fields) : isSuccess(FieldResults[j]))
    => outcome = Right(Projection)

\* object.has decoded {a: "x", toString: 0}: a converted by numberFromString,
\* the absent optional b undefined, the undeclared toString left out
C18_Witness ==
  /\ Ran("object.has")
  /\ parser = Has(<<Field("a", RequiredFP("a", numberFromString)),
                    Field("b", OptionalFP("b", IsOf("string")))>>)
  /\ input = ObjV([x \in {"a", "toString"} |-> IF x = "a" THEN StrV("x") ELSE NumV(0)])
  /\ outcome = Right(ObjV([x \in {"a", "b"} |-> IF x = "a" THEN NaN ELSE Undef]))

\* C19: thing.is.of(typeTag) on x succeeds with x unchanged iff the runtime
\* category of x (its typeof) equals typeTag, and otherwise fails with a
\* NotOfType carrying typeTag and x; thing.is.string fails on numbers,
\* objects, null and undefined.
C19_IsOfChecksCategory ==
  Ran("thing.is.of") =>
    /\ isSuccess(outcome) <=> TypeOf(input) = parser.type
    /\ isSuccess(outcome) => outcome = Right(input)
    /\ ~isSuccess(outcome) => outcome = Left(NotOfType(parser.type, input))
    /\ (parser.type = "string" /\ input.t \in {"number", "object", "null", "undefined"})
         => isFailure(outcome)

\* thing.is.object ran on null, whose typeof is "object", and succeeded
C19_Witness ==
  /\ Ran("thing.is.of")
  /\ parser = IsOf("object")
  /\ input = Null
  /\ outcome = Right(Null)

\* each validator of thing.is.not with its thing.is counterpart
Negations ==
  {<<NotOf(t), IsOf(t)>> : t \in PrimitiveString} \cup {<<thing_is_not_array, thing_is_array>>}

\* C20: every validator of the thing.is.not namespace is the complement of
\* its thing.is counterpart: on every input x it succeeds, returning x, iff
\* the counterpart fails on x.
C20_NotIsComplement ==
  \A n \in Negations :
    (pc = "ran" /\ parser = n[1]) =>
      /\ isSuccess(outcome) <=> isFailure(runParser(n[2], input))
      /\ isSuccess(outcome) => outcome = Right(input)

\* C20 for thing.is.not.of(t) and the named negations built from it: the
\* same statement holds.
C20_NotOfIsComplement ==
  \A t \in PrimitiveString :
    (pc = "ran" /\ parser = NotOf(t)) =>
      /\ isSuccess(outcome) <=> isFailure(runParser(IsOf(t), input))
      /\ isSuccess(outcome) => outcome = Right(input)

\* Structural equality of two values, member by member: the same kind, the
\* same primitive, the same own names with equal values, the same elements.
RECURSIVE DeepEqual(_, _)
DeepEqual(x, y) ==
  /\ x.t = y.t
  /\ CASE x.t = "object" ->
             /\ DOMAIN x.props = DOMAIN y.props
             /\ \A f \in DOMAIN x.props : DeepEqual(x.props[f], y.props[f])
        [] x.t = "array" ->
             /\ Len(x.elems) = Len(y.elems)
             /\ \A i \in 1 .. Len(x.elems) : DeepEqual(x.elems[i], y.elems[i])
        [] x.t = "number" -> x.n = y.n
        [] x.t = "string" -> x.s = y.s
        [] x.t = "boolean" -> x.b = y.b
        [] OTHER -> TRUE

\* C21: thing.is.equalTo(x) on input y succeeds, returning y, iff y is
\* structurally (deep) equal to x; otherwise it fails.
C21_EqualToIsDeepEquality ==
  Ran("thing.is.equalTo") =>
    IF DeepEqual(parser.object, input) THEN outcome = Right(input) ELSE isFailure(outcome)

\* equalTo({a: 0}) ran on another object {a: 0} and succeeded
C21_Witness ==
  /\ Ran("thing.is.equalTo")
  /\ parser = EqualTo(ObjV([x \in {"a"} |-> NumV(0)]))
  /\ input = ObjV([x \in {"a"} |-> NumV(0)])
  /\ outcome = Right(input)

TestCalls == {i \in 1 .. Len(log) : log[i].ev = "call" /\ log[i].f = parser.p}

\* C22: predicate(typeTag)(test, messageFn) on x: if x is not of category
\* typeTag it fails with the NotOfType of thing.is.of(typeTag) and test is
\* never applied; if x is of the category and test(x) is true it succeeds
\* with x; if test(x) is false it fails with PredicateMismatch carrying x and
\* messageFn(x).
C22_PredicateRefines ==
  Ran("predicate") =>
    IF TypeOf(input) # parser.type
    THEN /\ outcome = Left(NotOfType(parser.type, input))
         /\ TestCalls = {}
    ELSE IF CallFn(parser.p, input) = BoolV(TRUE)
    THEN outcome = Right(input)
    ELSE outcome = Left(PredicateMismatch(input, CallTemplate(parser.template, input)))

\* the range predicate ran on a number outside the range: PredicateMismatch
\* with the message of the call site's template
C22_Witness ==
  /\ Ran("predicate")
  /\ parser = number_range_inclusive(RangeFrom, RangeTo)
  /\ input = NumV(RangeTo + 1)
  /\ outcome = Left(PredicateMismatch(input,
                   <<Tpl(input), Lit(" is not in range ["), Tpl(NumV(RangeFrom)), Lit(","),
                     Tpl(NumV(RangeTo)), Lit("]")>>))

\* C23: number.range.inclusive(from, to) succeeds on n iff n is a number
\* and from <= n <= to; for [0, 255] it succeeds on 0 and 255 and fails on -1
\* and 256; and the object validator with required r, g, b in that range
\* succeeds on an object iff all three are present and in range, and fails
\* otherwise.
InRange(v, lower, upper) == v.t = "number" /\ lower <= v.n /\ v.n <= upper

C23_RangeInclusive ==
  /\ \A r \in Ranges :
       (pc = "ran" /\ parser = number_range_inclusive(r[1], r[2])) =>
         IF InRange(input, r[1], r[2]) THEN outcome = Right(input) ELSE isFailure(outcome)
  /\ (pc = "ran" /\ parser = rgbColorValidator /\ input.t = "object") =>
       IF \A x \in {"r", "g", "b"} :
            x \in OwnKeys(input) /\ InRange(input.props[x], RangeFrom, RangeTo)
       THEN isSuccess(outcome)
       ELSE isFailure(outcome)

\* inclusive(0, 255) ran on 255, the upper end, and succeeded
C23_Witness ==
  /\ Ran("predicate")
  /\ parser = number_range_inclusive(RangeFrom, RangeTo)
  /\ input = NumV(RangeTo)
  /\ outcome = Right(input)

\* C24: runParserEx(validator, input) returns the decoded value r exactly
\* when runParser(validator, input) is Ok(r), and raises an error exactly
\* when runParser(validator, input) is a failure.
RunParserExClaim(r) ==
  /\ outcome.tag = "Returned" <=> isSuccess(r)
  /\ isSuccess(r) => outcome = Returned(r.right)
  /\ IsThrow(outcome) <=> isFailure(r)

C24_RunParserExMirrors == pc = "ranEx" => RunParserExClaim(runParser(parser, input))

\* C24 on runs of runParser that return: the same statement holds, and the
\* error raised for a failure is an Error.
C24_OnReturningRuns ==
  (pc = "ranEx" /\ ~IsThrow(runParser(parser, input))) =>
    /\ RunParserExClaim(runParser(parser, input))
    /\ isFailure(runParser(parser, input)) => outcome.exc = "Error"

\* validators and inputs giving the failures the thrown errors are compared on
ComparedParsers == {IsOf("string"), IsOf("number"), Required("a", IsOf("string"))}
ComparedInputs == Scalars \cup {ObjV(EmptyProps)}

\* C25: the error raised by runParserEx preserves the information of the
\* structured error: two failures with different errors give thrown errors
\* that differ.
C25_ThrownErrorKeepsError ==
  (pc = "ranEx" /\ isFailure(runParser(parser, input))) =>
    \A p2 \in ComparedParsers, i2 \in ComparedInputs :
      (/\ isFailure(runParser(p2, i2))
       /\ runParser(p2, i2) # runParser(parser, input))
        => runParserEx(p2, i2) # outcome

\* The field names a piece of an error message shows: the keys of a rendered
\* object, the strings of a rendered array of names.
NamesIn(part) ==
  IF "json" \notin DOMAIN part THEN {}
  ELSE CASE part.json.t = "object" -> DOMAIN part.json.props
         [] part.json.t = "array" ->
              {part.json.elems[i].s : i \in 1 .. Len(part.json.elems)}
         [] OTHER -> {}

ExtraNames == OwnKeys(input) \ DeclaredNames(parser.fields)

\* C26: when object.just rejects an input because of undeclared fields, the
\* error it returns identifies the extra field names, while an input with
\* the declared fields only succeeds.
C26_JustNamesExtraFields ==
  (/\ Ran("object.just")
   /\ input.t = "object"
   /\ isSuccess(runParser(Has(parser.fields), input)))
    => /\ ExtraNames = {} => isSuccess(outcome)
       /\ isFailure(outcome) =>
            \A x \in ExtraNames :
              \E i \in 1 .. Len(outcome.left.parts) : x \in NamesIn(outcome.left.parts[i])

InputWrites == {i \in 1 .. Len(log) : log[i].ev = "write" /\ log[i].target = "input"}
ResultWrites == {i \in 1 .. Len(log) : log[i].ev = "write" /\ log[i].target = "endResult"}

RECURSIVE ElementLogs(_)
ElementLogs(n) ==
  IF n = 0 THEN <<>>
  ELSE ElementLogs(n - 1) \o Exec(parser.parser, input.elems[n]).log

\* C28: array.of(elementValidator) is fail-fast in evaluation: once the
\* element at some index fails, the element validator is not invoked on any
\* element at a higher index, and the failure is returned.
C28_ArrayOfFailFast ==
  (/\ Ran("array.of")
   /\ input.t = "array"
   /\ \E i \in 1 .. Len(input.elems) : isFailure(ElementResults[i]))
    => /\ log = <<RunEv(parser, input)>> \o ElementLogs(FirstFailing)
       /\ isFailure(outcome)

\* What the code does instead: every element is run, up to the first one
\* that raises.
C28_RunsEveryElement ==
  (/\ Ran("array.of")
   /\ input.t = "array"
   /\ \A i \in 1 .. Len(input.elems) : ~IsThrow(ElementResults[i]))
    => log = <<RunEv(parser, input)>> \o ElementLogs(Len(input.elems))

FieldRuns ==
  {i \in 1 .. Len(log) :
     /\ log[i].ev = "run"
     /\ \E j \in 1 .. Len(parser.fields) : log[i].p = parser.fields[j].parser}

\* failing with the type mismatch for "object", before any field accessor
CategoryClaim ==
  /\ outcome \in {Left(NotOfType("object", input)), runParser(IsOfFP("object"), input)}
  /\ isFailure(outcome)
  /\ FieldRuns = {}

\* C29: the object validator checks the input's category before any field
\* lookup: on an input that is not of the object category (a number, string,
\* boolean or undefined), object.has / object.of with any declared fields
\* fails with the type mismatch for "object" and no field accessor is
\* evaluated.
C29_CategoryBeforeFields ==
  (/\ pc = "ran"
   /\ parser.k \in {"object.has", "object.of"}
   /\ input.t \in {"number", "string", "boolean", "undefined"})
    => CategoryClaim

\* C29 for object.has: the same statement holds.
C29_HasChecksCategoryFirst ==
  (/\ Ran("object.has")
   /\ input.t \in {"number", "string", "boolean", "undefined"})
    => CategoryClaim

\* run(f(a), i): the validator the call f(a) returns, run on i
RunCalled(f, a, i) ==
  LET c == CallParser(f, a) IN
  IF c.threw THEN Throw(c.exc) ELSE runParser(c.parser, i)

\* C30: chain and succeed satisfy the monad identity laws on results:
\* running chain(succeed(a), f) on i gives what running f(a) on i gives,
\* running chain(v, succeed) on i gives what running v on i gives, and on
\* every input succeed(a) yields the success a and fail(e) the failure e.
C30_MonadIdentityLaws ==
  pc = "ran" =>
    /\ (parser.k = "of") => outcome = Right(parser.result)
    /\ (parser.k = "fail") => outcome = Left(parser.error)
    /\ (parser.k = "chain" /\ parser.fa.k = "of") =>
         outcome = RunCalled(parser.afb, parser.fa.result, input)
    /\ (parser.k = "chain" /\ parser.afb = SucceedK) =>
         outcome = runParser(parser.fa, input)

C30_Witness ==
  /\ Ran("chain")
  /\ parser = Chain(Succeed(StrV("x")), ThenStringK)
  /\ input = NumV(0)
  /\ outcome = Left(NotOfType("string", NumV(0)))
====
